---- MODULE Spec2Model ----
(***************************************************************************)
(* reposync (src/main.go): main validates its flags and calls              *)
(* RepoSync.Sync, which lists the remote repositories page by page, lists  *)
(* the directories of the working directory, computes the two differences  *)
(* and runs one goroutine per repository to archive and per repository to  *)
(* clone, joined by two sync.WaitGroups.                                   *)
(*                                                                         *)
(* A repository name is a sequence of characters, so that the hidden-name  *)
(* test strings.Index(name, ".") == 0 is computed on the characters.       *)
(* The GitHub client, the filesystem and git are the environment: each     *)
(* call's result is drawn from the results the call can have.              *)
(***************************************************************************)
EXTENDS Integers, Sequences, FiniteSets, Bags, TLC

\* ---------------------------------------------------------------- bounds
\* Most entries the provider returns over all pages of one listing.
MaxRemote == 2
\* Highest page number the provider hands out as a next page.
MaxPage == 2
\* Longest argument of a call of Difference on its own.
MaxLen == 3

\* ------------------------------------------------------------ value sets
NameX == <<"x">>
\* "y.g": a name with a '.' that is not its first character.
NameY == <<"y", ".", "g">>
NameH == <<".", "h">>
Names == {NameX, NameY, NameH}
\* ioutil.ReadDir returns the entries sorted by file name ('.' sorts first).
SortedNames == <<NameH, NameX, NameY>>
\* github.Repository.Name == nil
NoName == <<>>
\* What a path of the filesystem holds: nothing, a regular file, a directory
\* that was there before the run, or a directory a clone of this run made.
Kinds == {"absent", "file", "dir", "clone"}
\* An entry of a page: Name is nil or a name, Fork is nil or a bool.
Entry == [name : Names \cup {NoName}, fork : {"nil", "false", "true"}]

VARIABLES
  pc,              \* position of the main goroutine
  rs,              \* the RepoSync value main builds (zero value before)
  page,            \* opt.ListOptions.Page
  allRepos,        \* names accumulated by the remote lister
  remoteErr,       \* the remote-list closure returned an error
  currentRepos,    \* names found by the local lister
  reposToArchive,
  reposToClone,
  archSt,          \* state of each archive goroutine, by index in reposToArchive
  cloneSt,         \* state of each clone goroutine, by index in reposToClone
  archivers,       \* WaitGroup counter
  cloners,         \* WaitGroup counter
  fs,              \* the filesystem: working directory and archive directory
  cmds,            \* bag of the mutating commands issued (mkdir, rename, clone)
  log,             \* the lines written through package log, per description
  ret,             \* what Sync returned: "none" while running, "nil" or an error
  readErr,         \* the error ioutil.ReadDir returned, which line 180 drops
  served,          \* the requests of the remote lister and what each returned
  run,             \* 1 in the first run of the program, 2 in a second run
  prevRepos,       \* in a second run, the remote list the first run fetched
  argA, argB,      \* arguments of a call of Difference on its own
  result           \* and what the call returned

\* What only the specifications of single parts of the program change.
others == <<served, run, prevRepos, argA, argB, result>>

vars == <<pc, rs, page, allRepos, remoteErr, currentRepos, reposToArchive,
          reposToClone, archSt, cloneSt, archivers, cloners, fs, cmds, log, ret,
          readErr, served, run, prevRepos, argA, argB, result>>

\* ------------------------------------------------------------- utilities
RECURSIVE ContainsFrom(_, _, _)
ContainsFrom(list, el, i) ==
  IF i > Len(list) THEN FALSE
  ELSE IF list[i] = el THEN TRUE
  ELSE ContainsFrom(list, el, i + 1)

\* A membership test that looks at the first element only.
ContainsHead(list, el) == Len(list) > 0 /\ list[1] = el

Contains(list, el) == ContainsFrom(list, el, 1)

\* A difference that keeps one copy of each element.
RECURSIVE DifferenceFromDedup(_, _, _, _)
DifferenceFromDedup(a, b, i, diff) ==
  IF i > Len(a) THEN diff
  ELSE IF Contains(b, a[i]) \/ Contains(diff, a[i])
       THEN DifferenceFromDedup(a, b, i + 1, diff)
  ELSE DifferenceFromDedup(a, b, i + 1, Append(diff, a[i]))

RECURSIVE DifferenceFrom(_, _, _, _)
DifferenceFrom(a, b, i, diff) ==
  IF i > Len(a) THEN diff
  ELSE IF Contains(b, a[i]) THEN DifferenceFrom(a, b, i + 1, diff)
  ELSE DifferenceFrom(a, b, i + 1, Append(diff, a[i]))

\* A difference that drops nothing.
DifferenceUnfiltered(a, b) == a

Difference(a, b) == DifferenceFrom(a, b, 1, <<>>)

Range(s) == {s[i] : i \in 1..Len(s)}

\* strings.Index(s, "."): position of the first '.', counted from 0, or -1.
RECURSIVE IndexDotFrom(_, _)
IndexDotFrom(s, i) ==
  IF i > Len(s) THEN -1
  ELSE IF s[i] = "." THEN i - 1
  ELSE IndexDotFrom(s, i + 1)

IndexDot(s) == IndexDotFrom(s, 1)

\* ------------------------------------------------------------------- log
\* The log is kept per description: log[d] is the sequence of the lines of
\* package log that carry description d, in the order they were written.
Desc(what, r) == [d |-> what, r |-> r]

Descs == {Desc(w, <<>>) : w \in {"loading repos", "loading local", "nothing to do!", "fatal"}}
         \cup {Desc(w, n) : w \in {"archiving", "cloning"}, n \in Names}

Printf(l, kind, what, r) == [l EXCEPT ![Desc(what, r)] = Append(@, kind)]

\* A Task.Run that reports success whatever its closure returned.
TaskEndAlwaysFinished(failed) == "finished"

\* Task.Run, lines 99-103, around an action that has returned: the one
\* terminal line, error or finished.
TaskEnd(failed) == IF failed THEN "error" ELSE "finished"

\* ----------------------------------------------------------------- flags
\* The values flag.Parse can hand to main; -userrepoforks ("For the GitHub
\* user") keeps its default, true, unless -user is given.
Flags == {f \in [versionflag : BOOLEAN, user : {"", "u"}, org : {"", "o"},
                 userRepoForks : BOOLEAN, dir : {"", "d"}, archivedir : {"", "a"},
                 token : {"", "t"}, dryrun : BOOLEAN] :
            f.user = "" => f.userRepoForks}

\* The zero value of RepoSync.
ZeroRepoSync == [org |-> "", user |-> "", userRepoForks |-> FALSE, workdir |-> "",
                 archivedir |-> "", token |-> "", dryrun |-> FALSE]

NewRepoSync(f) == [org |-> f.org, user |-> f.user, userRepoForks |-> f.userRepoForks,
                   workdir |-> f.dir, archivedir |-> f.archivedir,
                   token |-> f.token, dryrun |-> f.dryrun]

\* A main that does not ask for an account.
StartupErrorNoAccount(f) ==
  IF f.dir = "" THEN "must provide dir"
  ELSE IF f.archivedir = "" THEN "must provide archivedir"
  ELSE IF f.token = "" THEN "must provide token"
  ELSE ""

\* The log.Fatal message main stops with, "" when the flags pass.
StartupError(f) ==
  IF f.user = "" /\ f.org = "" THEN "must provide user or org"
  ELSE IF f.dir = "" THEN "must provide dir"
  ELSE IF f.archivedir = "" THEN "must provide archivedir"
  ELSE IF f.token = "" THEN "must provide token"
  ELSE ""

\* Which listing loop the remote-list closure enters.
ListMode(r) ==
  IF r.org # "" THEN "list_org"
  ELSE IF r.user # "" THEN "list_user"
  ELSE "none"

\* ------------------------------------------------------------ filesystem
IsDir(kind) == kind \in {"dir", "clone"}

\* A filter that forgot the hidden names.
KeepLocalHidden(work, n) == IsDir(work[n])

\* The lines 181-186 filter, over the sorted entries ReadDir returned.
KeepLocal(work, n) == IsDir(work[n]) /\ IndexDot(n) # 0

RECURSIVE LocalFrom(_, _, _)
LocalFrom(work, i, acc) ==
  IF i > Len(SortedNames) THEN acc
  ELSE IF work[SortedNames[i]] = "absent" THEN LocalFrom(work, i + 1, acc)
  ELSE IF ~KeepLocal(work, SortedNames[i]) THEN LocalFrom(work, i + 1, acc)
  ELSE LocalFrom(work, i + 1, Append(acc, SortedNames[i]))

\* A listing that goes on with the entries read before the error.
LocalListPartial(work, failed) == LocalFrom(work, 1, <<>>)

\* currentRepos after the local-list closure; a ReadDir error gives no files.
LocalList(work, failed) == IF failed THEN <<>> ELSE LocalFrom(work, 1, <<>>)

\* The working directories a run starts from: each name absent or a
\* directory, and "x" possibly a regular file.
WorkDirs == {w \in [Names -> Kinds \ {"clone"}] :
               \A n \in Names : w[n] = "file" => n = NameX}

\* os.MkdirAll on an existing directory returns nil and changes nothing.
MkdirResults(f) == IF f.archExists THEN {TRUE} ELSE BOOLEAN

\* os.Rename needs its source; it may fail for other reasons as well.
RenameResults(f, r) == IF f.work[r] = "absent" THEN {FALSE} ELSE BOOLEAN

Renamed(f, r) == [f EXCEPT !.work[r] = "absent", !.arch[r] = f.work[r]]

\* git clone refuses a destination that exists; it may fail otherwise too.
CloneResults(f, r) == IF f.work[r] = "absent" THEN BOOLEAN ELSE {FALSE}

Cloned(f, r) == [f EXCEPT !.work[r] = "clone"]

Issue(op, r) == cmds (+) SetToBag({[op |-> op, r |-> r]})

\* -------------------------------------------------------------- provider
\* The pages a request can return once allRepos holds n names.
RECURSIVE SeqsUpTo(_, _)
SeqsUpTo(S, n) ==
  IF n = 0 THEN {<<>>}
  ELSE LET shorter == SeqsUpTo(S, n - 1)
       IN  shorter \cup {Append(s, e) : s \in {t \in shorter : Len(t) = n - 1}, e \in S}

PagesFor(n) == SeqsUpTo(Entry, MaxRemote - n)

\* resp.NextPage: 0 for the last page, else a later page.
NextPages(p) == {0} \cup {q \in 2..MaxPage : q > p}

\* Lines 138-143: every named entry of the page.
RECURSIVE OrgNamesFrom(_, _, _)
OrgNamesFrom(repos, i, acc) ==
  IF i > Len(repos) THEN acc
  ELSE IF repos[i].name = NoName THEN OrgNamesFrom(repos, i + 1, acc)
  ELSE OrgNamesFrom(repos, i + 1, Append(acc, repos[i].name))

OrgNames(repos) == OrgNamesFrom(repos, 1, <<>>)

\* Lines 159-167: named entries, without the forks when userRepoForks is off.
RECURSIVE UserNamesFrom(_, _, _, _)
UserNamesFrom(repos, forks, i, acc) ==
  IF i > Len(repos) THEN acc
  ELSE IF repos[i].name = NoName THEN UserNamesFrom(repos, forks, i + 1, acc)
  ELSE IF forks = FALSE /\ repos[i].fork # "nil" /\ repos[i].fork = "true"
       THEN UserNamesFrom(repos, forks, i + 1, acc)
  ELSE UserNamesFrom(repos, forks, i + 1, Append(acc, repos[i].name))

\* A user listing that keeps the forks whatever the flag says.
UserNamesWithForks(repos, forks) == OrgNames(repos)

UserNames(repos, forks) == UserNamesFrom(repos, forks, 1, <<>>)

\* --------------------------------------------------------- Sync's choices
\* Line 193.
NothingToDo(a, c) == Len(a) + Len(c) = 0

\* An archive loop that ranges over every local repository.
ArchiveEverything == currentRepos

\* A clone loop that ranges over every remote repository.
CloneEverything == allRepos

\* What the loop of line 202 ranges over, and the loop of line 216.
ArchiveList == reposToArchive
CloneList == reposToClone

\* Where Sync goes once na archive and nc clone goroutines are started.
SpawnPc(na, nc) ==
  IF na < Len(ArchiveList) THEN "spawn_arch"
  ELSE IF nc < Len(CloneList) THEN "spawn_clone"
  ELSE "wait_arch"

\* A Sync that goes on after a failed MkdirAll.
AfterMkdirUnchecked(ok) == SpawnPc(0, 0)

\* Lines 199-201: the position after MkdirAll returned.
AfterMkdir(ok) == IF ok THEN SpawnPc(0, 0) ELSE "returned"

\* A Wait that returns whatever the counter holds.
WaitIgnoresCounter(counter) == TRUE

\* A Wait that returns with one goroutine still counted.
WaitReturnsEarly(counter) == counter <= 1

\* sync.WaitGroup.Wait returns when the counter is zero.
WaitReturns(counter) == counter = 0

\* A Sync that reports a failed task to its caller.
SyncReturnTaskError ==
  IF \E d \in DOMAIN log : d.d \in {"archiving", "cloning"} /\ Contains(log[d], "error")
  THEN "err_task" ELSE "nil"

\* Line 240.
SyncReturn == "nil"

\* What Task.Run hands back to Sync for a closure that returned err:
\* Run has no result, Sync goes on to the local listing.
AfterRemoteTask(err) == "local"

\* ------------------------------------------------------------------ Init
Init ==
  /\ pc = "main"
  /\ rs = ZeroRepoSync
  /\ page = 0
  /\ allRepos = <<>>
  /\ remoteErr = FALSE
  /\ currentRepos = <<>>
  /\ reposToArchive = <<>>
  /\ reposToClone = <<>>
  /\ archSt = <<>>
  /\ cloneSt = <<>>
  /\ archivers = 0
  /\ cloners = 0
  /\ \E w \in WorkDirs, e \in BOOLEAN :
       fs = [work |-> w, archExists |-> e, arch |-> [n \in Names |-> "absent"]]
  /\ cmds = EmptyBag
  /\ log = [d \in Descs |-> <<>>]
  /\ ret = "none"
  /\ readErr = FALSE
  /\ served = <<>>
  /\ run = 1
  /\ prevRepos = <<>>
  /\ argA = <<>>
  /\ argB = <<>>
  /\ result = <<>>

\* --------------------------------------------------------------- actions
\* main, lines 21-63, up to the first request of the remote-list closure.
Main ==
  /\ pc = "main"
  /\ \E f \in Flags :
       IF f.versionflag THEN
         /\ pc' = "exit0"
         /\ UNCHANGED <<rs, log>>
       ELSE IF StartupError(f) # "" THEN
         /\ pc' = "fatal"
         /\ log' = Printf(log, StartupError(f), "fatal", <<>>)
         /\ UNCHANGED rs
       ELSE
         /\ rs' = NewRepoSync(f)
         /\ log' = Printf(log, "begin", "loading repos", <<>>)
         /\ pc' = ListMode(rs')
  /\ UNCHANGED <<page, allRepos, remoteErr, currentRepos, reposToArchive,
                 reposToClone, archSt, cloneSt, archivers, cloners, fs, cmds, ret,
                 readErr, others>>

\* A loop that stops after its first page.
LastPageAlways(next) == TRUE

\* Line 144 (and 168): the page just read is the last one.
LastPage(next) == next = 0

\* One pass of the loop of lines 133-148 or 154-172 whose request returned
\* an error: the closure returns it to Task.Run.
ListErr ==
  /\ remoteErr' = TRUE
  /\ log' = Printf(log, TaskEnd(TRUE), "loading repos", <<>>)
  /\ pc' = AfterRemoteTask(TRUE)
  /\ UNCHANGED <<page, allRepos, ret>>

\* One pass whose request returned the entries repos and resp.NextPage next.
ListOk(mode, repos, next) ==
  /\ allRepos' = allRepos \o (IF mode = "org" THEN OrgNames(repos)
                               ELSE UserNames(repos, rs.userRepoForks))
  /\ IF LastPage(next)
     THEN /\ log' = Printf(log, TaskEnd(FALSE), "loading repos", <<>>)
          /\ pc' = AfterRemoteTask(FALSE)
          /\ UNCHANGED page
     ELSE /\ page' = next
          /\ UNCHANGED <<log, pc>>
  /\ UNCHANGED <<remoteErr, ret>>

\* A request and its result.
ListStep(mode) ==
  \/ ListErr
  \/ \E repos \in PagesFor(Len(allRepos)), next \in NextPages(page) :
       ListOk(mode, repos, next)

ListByOrg ==
  /\ pc = "list_org"
  /\ ListStep("org")
  /\ UNCHANGED <<rs, currentRepos, reposToArchive, reposToClone, archSt, cloneSt,
                 archivers, cloners, fs, cmds, readErr, others>>

ListByUser ==
  /\ pc = "list_user"
  /\ ListStep("user")
  /\ UNCHANGED <<rs, currentRepos, reposToArchive, reposToClone, archSt, cloneSt,
                 archivers, cloners, fs, cmds, readErr, others>>

\* Lines 178-196: the local-list task, the two differences, the short cut.
ListLocal ==
  /\ pc = "local"
  /\ \E failed \in BOOLEAN :
       /\ readErr' = failed
       /\ currentRepos' = LocalList(fs.work, failed)
       /\ reposToArchive' = Difference(currentRepos', allRepos)
       /\ reposToClone' = Difference(allRepos, currentRepos')
       /\ LET l == Printf(Printf(log, "begin", "loading local", <<>>),
                           TaskEnd(FALSE), "loading local", <<>>)
          IN  IF NothingToDo(reposToArchive', reposToClone')
              THEN /\ log' = Printf(l, "print", "nothing to do!", <<>>)
                   /\ ret' = "nil"
                   /\ pc' = "returned"
              ELSE /\ log' = l
                   /\ pc' = "mkdir"
                   /\ UNCHANGED ret
  /\ UNCHANGED <<rs, page, allRepos, remoteErr, archSt, cloneSt, archivers,
                 cloners, fs, cmds,
                 others>>

\* Lines 198-201: os.MkdirAll(rs.archivedir).
Mkdir ==
  /\ pc = "mkdir"
  /\ \E ok \in MkdirResults(fs) :
       /\ cmds' = Issue("mkdir", <<>>)
       /\ fs' = IF ok THEN [fs EXCEPT !.archExists = TRUE] ELSE fs
       /\ pc' = AfterMkdir(ok)
       /\ ret' = IF pc' = "returned" THEN "err_mkdir" ELSE ret
  /\ UNCHANGED <<rs, page, allRepos, remoteErr, currentRepos, reposToArchive,
                 reposToClone, archSt, cloneSt, archivers, cloners, log,
                 readErr, others>>

\* One pass of the loop of lines 202-213: Add(1) and the go statement.
SpawnArchiver ==
  /\ pc = "spawn_arch"
  /\ archivers' = archivers + 1
  /\ archSt' = Append(archSt, "spawned")
  /\ pc' = SpawnPc(Len(archSt'), 0)
  /\ UNCHANGED <<rs, page, allRepos, remoteErr, currentRepos, reposToArchive,
                 reposToClone, cloneSt, cloners, fs, cmds, log, ret,
                 readErr, others>>

\* One pass of the loop of lines 216-236.
SpawnCloner ==
  /\ pc = "spawn_clone"
  /\ cloners' = cloners + 1
  /\ cloneSt' = Append(cloneSt, "spawned")
  /\ pc' = SpawnPc(Len(ArchiveList), Len(cloneSt'))
  /\ UNCHANGED <<rs, page, allRepos, remoteErr, currentRepos, reposToArchive,
                 reposToClone, archSt, archivers, fs, cmds, log, ret,
                 readErr, others>>

\* An archive goroutine enters Task.Run: the begin line.
ArchiveBegin(i) ==
  /\ archSt[i] = "spawned"
  /\ archSt' = [archSt EXCEPT ![i] = "running"]
  /\ log' = Printf(log, "begin", "archiving", ArchiveList[i])
  /\ UNCHANGED <<pc, rs, page, allRepos, remoteErr, currentRepos, reposToArchive,
                 reposToClone, cloneSt, archivers, cloners, fs, cmds, ret,
                 readErr, others>>

\* Its closure runs (lines 207-210), Run logs the result, Done is deferred.
ArchiveRun(i) ==
  /\ archSt[i] = "running"
  /\ LET r == ArchiveList[i]
     IN  IF rs.dryrun
         THEN /\ log' = Printf(log, TaskEnd(FALSE), "archiving", r)
              /\ UNCHANGED <<fs, cmds>>
         ELSE \E ok \in RenameResults(fs, r) :
                /\ cmds' = Issue("rename", r)
                /\ fs' = IF ok THEN Renamed(fs, r) ELSE fs
                /\ log' = Printf(log, TaskEnd(~ok), "archiving", r)
  /\ archSt' = [archSt EXCEPT ![i] = "done"]
  /\ archivers' = archivers - 1
  /\ UNCHANGED <<pc, rs, page, allRepos, remoteErr, currentRepos, reposToArchive,
                 reposToClone, cloneSt, cloners, ret,
                 readErr, others>>

\* A clone goroutine enters Task.Run: the begin line.
CloneBegin(i) ==
  /\ cloneSt[i] = "spawned"
  /\ cloneSt' = [cloneSt EXCEPT ![i] = "running"]
  /\ log' = Printf(log, "begin", "cloning", CloneList[i])
  /\ UNCHANGED <<pc, rs, page, allRepos, remoteErr, currentRepos, reposToArchive,
                 reposToClone, archSt, archivers, cloners, fs, cmds, ret,
                 readErr, others>>

\* Its closure runs (lines 221-233), Run logs the result, Done is deferred.
CloneRun(i) ==
  /\ cloneSt[i] = "running"
  /\ LET r == CloneList[i]
     IN  IF rs.dryrun
         THEN /\ log' = Printf(log, TaskEnd(FALSE), "cloning", r)
              /\ UNCHANGED <<fs, cmds>>
         ELSE \E ok \in CloneResults(fs, r) :
                /\ cmds' = Issue("clone", r)
                /\ fs' = IF ok THEN Cloned(fs, r) ELSE fs
                /\ log' = Printf(log, TaskEnd(~ok), "cloning", r)
  /\ cloneSt' = [cloneSt EXCEPT ![i] = "done"]
  /\ cloners' = cloners - 1
  /\ UNCHANGED <<pc, rs, page, allRepos, remoteErr, currentRepos, reposToArchive,
                 reposToClone, archSt, archivers, ret,
                 readErr, others>>

\* Line 238.
WaitArchivers ==
  /\ pc = "wait_arch"
  /\ WaitReturns(archivers)
  /\ pc' = "wait_clone"
  /\ UNCHANGED <<rs, page, allRepos, remoteErr, currentRepos, reposToArchive,
                 reposToClone, archSt, cloneSt, archivers, cloners, fs, cmds, log, ret,
                 readErr, others>>

\* Lines 239-240.
WaitCloners ==
  /\ pc = "wait_clone"
  /\ WaitReturns(cloners)
  /\ ret' = SyncReturn
  /\ pc' = "returned"
  /\ UNCHANGED <<rs, page, allRepos, remoteErr, currentRepos, reposToArchive,
                 reposToClone, archSt, cloneSt, archivers, cloners, fs, cmds, log,
                 readErr, others>>

\* Lines 60-63: main with Sync's result.
MainExit ==
  /\ pc = "returned"
  /\ IF ret # "nil"
     THEN /\ pc' = "fatal"
          /\ log' = Printf(log, ret, "fatal", <<>>)
     ELSE /\ pc' = "exit0"
          /\ UNCHANGED log
  /\ UNCHANGED <<rs, page, allRepos, remoteErr, currentRepos, reposToArchive,
                 reposToClone, archSt, cloneSt, archivers, cloners, fs, cmds, ret,
                 readErr, others>>

Next ==
  \/ Main
  \/ ListByOrg
  \/ ListByUser
  \/ ListLocal
  \/ Mkdir
  \/ SpawnArchiver
  \/ SpawnCloner
  \/ \E i \in 1..Len(archSt) : ArchiveBegin(i)
  \/ \E i \in 1..Len(archSt) : ArchiveRun(i)
  \/ \E i \in 1..Len(cloneSt) : CloneBegin(i)
  \/ \E i \in 1..Len(cloneSt) : CloneRun(i)
  \/ WaitArchivers
  \/ WaitCloners
  \/ MainExit

Spec == Init /\ [][Next]_vars


\* ------------------------------------------------- the remote lister alone
\* The lister's passes again, each request and its result noted in served.
ServedStep(mode) ==
  \/ /\ ListErr
     /\ served' = Append(served, [page |-> page, err |-> TRUE, repos |-> <<>>, next |-> 0])
  \/ \E repos \in PagesFor(Len(allRepos)), next \in NextPages(page) :
       /\ ListOk(mode, repos, next)
       /\ served' = Append(served, [page |-> page, err |-> FALSE, repos |-> repos,
                                    next |-> next])

ServedByOrg ==
  /\ pc = "list_org"
  /\ ServedStep("org")
  /\ UNCHANGED <<rs, currentRepos, reposToArchive, reposToClone, archSt, cloneSt,
                 archivers, cloners, fs, cmds, readErr, run, prevRepos, argA, argB,
                 result>>

ServedByUser ==
  /\ pc = "list_user"
  /\ ServedStep("user")
  /\ UNCHANGED <<rs, currentRepos, reposToArchive, reposToClone, archSt, cloneSt,
                 archivers, cloners, fs, cmds, readErr, run, prevRepos, argA, argB,
                 result>>

\* The lister does not read the filesystem: one filesystem is enough.
InitList ==
  /\ Init
  /\ fs.work = [n \in Names |-> "absent"]
  /\ ~fs.archExists

NextList ==
  \/ Main
  \/ ServedByOrg
  \/ ServedByUser

SpecList == InitList /\ [][NextList]_vars


\* ------------------------------------------------------ Difference alone
\* A call Difference(argA, argB) for any two lists of names up to MaxLen.
InitDiff ==
  /\ pc = "diff"
  /\ rs = ZeroRepoSync
  /\ page = 0
  /\ allRepos = <<>>
  /\ remoteErr = FALSE
  /\ currentRepos = <<>>
  /\ reposToArchive = <<>>
  /\ reposToClone = <<>>
  /\ archSt = <<>>
  /\ cloneSt = <<>>
  /\ archivers = 0
  /\ cloners = 0
  /\ fs = [work |-> [n \in Names |-> "absent"], archExists |-> FALSE,
           arch |-> [n \in Names |-> "absent"]]
  /\ cmds = EmptyBag
  /\ log = [d \in Descs |-> <<>>]
  /\ ret = "none"
  /\ readErr = FALSE
  /\ served = <<>>
  /\ run = 1
  /\ prevRepos = <<>>
  /\ argA \in SeqsUpTo(Names, MaxLen)
  /\ argB \in SeqsUpTo(Names, MaxLen)
  /\ result = <<>>

CallDifference ==
  /\ pc = "diff"
  /\ result' = Difference(argA, argB)
  /\ pc' = "diffed"
  /\ UNCHANGED <<rs, page, allRepos, remoteErr, currentRepos, reposToArchive,
                 reposToClone, archSt, cloneSt, archivers, cloners, fs, cmds, log,
                 ret, readErr, served, run, prevRepos, argA, argB>>

NextDiff == CallDifference

SpecDiff == InitDiff /\ [][NextDiff]_vars


\* -------------------------------------------------- commands that hang
\* os.Rename at line 210 never returns (a blocked filesystem): the goroutine
\* stays inside its closure, logs no terminal line and never calls Done.
ArchiveHang(i) ==
  /\ archSt[i] = "running"
  /\ ~rs.dryrun
  /\ cmds' = Issue("rename", ArchiveList[i])
  /\ archSt' = [archSt EXCEPT ![i] = "hung"]
  /\ UNCHANGED <<pc, rs, page, allRepos, remoteErr, currentRepos, reposToArchive,
                 reposToClone, cloneSt, archivers, cloners, fs, log, ret,
                 readErr, others>>

\* The git clone of line 225 or 230 never returns.
CloneHang(i) ==
  /\ cloneSt[i] = "running"
  /\ ~rs.dryrun
  /\ cmds' = Issue("clone", CloneList[i])
  /\ cloneSt' = [cloneSt EXCEPT ![i] = "hung"]
  /\ UNCHANGED <<pc, rs, page, allRepos, remoteErr, currentRepos, reposToArchive,
                 reposToClone, archSt, archivers, cloners, fs, log, ret,
                 readErr, others>>

\* A working directory that holds at most the directory "x".
InitLive ==
  /\ Init
  /\ \A n \in Names : fs.work[n] = "absent" \/ (n = NameX /\ fs.work[n] = "dir")

NextLive ==
  \/ Next
  \/ \E i \in 1..Len(archSt) : ArchiveHang(i)
  \/ \E i \in 1..Len(cloneSt) : CloneHang(i)

\* The scheduler runs a goroutine that can take a step; whether a command
\* hangs is not up to the scheduler.
SpecLive == InitLive /\ [][NextLive]_vars /\ WF_vars(Next)


\* ------------------------------------------------------ the program twice
\* The program is started again with the same flags on the directories the
\* first run left, after a first run that was not dry, exited 0 and logged
\* no error.
Restart ==
  /\ pc = "exit0"
  /\ run = 1
  /\ ret = "nil"
  /\ ~rs.dryrun
  /\ ~remoteErr
  /\ ~readErr
  /\ \A d \in DOMAIN log : ~Contains(log[d], "error")
  /\ run' = 2
  /\ prevRepos' = allRepos
  /\ pc' = ListMode(rs)
  /\ log' = Printf([d \in Descs |-> <<>>], "begin", "loading repos", <<>>)
  /\ page' = 0
  /\ allRepos' = <<>>
  /\ currentRepos' = <<>>
  /\ reposToArchive' = <<>>
  /\ reposToClone' = <<>>
  /\ archSt' = <<>>
  /\ cloneSt' = <<>>
  /\ cmds' = EmptyBag
  /\ ret' = "none"
  /\ UNCHANGED <<rs, fs, remoteErr, readErr, archivers, cloners, served, argA,
                 argB, result>>

\* The provider serves the second run the list it served the first.
SameRemote ==
  run = 2 =>
    /\ ~remoteErr
    /\ IF pc \in {"list_org", "list_user"}
       THEN /\ Len(allRepos) <= Len(prevRepos)
            /\ allRepos = SubSeq(prevRepos, 1, Len(allRepos))
       ELSE allRepos = prevRepos

NextTwice ==
  \/ Next /\ SameRemote'
  \/ Restart

SpecTwice == Init /\ [][NextTwice]_vars

\* ================================================================ claims
\* Number of lines of kind k among the lines s of one description.
RECURSIVE CountFrom(_, _, _)
CountFrom(s, k, i) ==
  IF i > Len(s) THEN 0
  ELSE (IF s[i] = k THEN 1 ELSE 0) + CountFrom(s, k, i + 1)

Count(s, k) == CountFrom(s, k, 1)

\* Number of entries of the list equal to n.
Times(list, n) == Cardinality({i \in 1..Len(list) : list[i] = n})

Issued(op, r) == CopiesIn([op |-> op, r |-> r], cmds)
IssuedNames(op) == {n \in Names : Issued(op, n) > 0}
NoWorkers == archSt = <<>> /\ cloneSt = <<>>
Returned == ret # "none"
\* The local-list task has run, so the two differences are computed.
Planned == log[Desc("loading local", <<>>)] # <<>>
LocalSet == Range(currentRepos)
RemoteSet == Range(allRepos)

\* C1: if a page request of the remote listing returned an error, Sync
\* returns that error, the archive directory is not created and no archive
\* or clone worker is started.
C1_RemoteErrorAborts ==
  remoteErr =>
    /\ Issued("mkdir", <<>>) = 0
    /\ NoWorkers
    /\ Returned => ret = "err_list"

\* C2: whatever subset of the started archive and clone actions fails, every
\* worker of the plan runs its action to the end and Sync returns nil.
C2_FailureIsolation ==
  (Returned /\ ~NoWorkers) =>
    /\ ret = "nil"
    /\ Len(archSt) = Len(reposToArchive)
    /\ Len(cloneSt) = Len(reposToClone)
    /\ ~rs.dryrun =>
         \A n \in Names : /\ Issued("rename", n) = Times(reposToArchive, n)
                          /\ Issued("clone", n) = Times(reposToClone, n)

\* A clone failed, a sibling clone and an archive finished, Sync returned nil.
C2_Witness ==
  /\ ret = "nil"
  /\ \E a, c1, c2 \in Names :
       /\ c1 # c2
       /\ Contains(log[Desc("cloning", c1)], "error")
       /\ Contains(log[Desc("cloning", c2)], "finished")
       /\ Contains(log[Desc("archiving", a)], "finished")

\* C3: when Sync has returned after starting workers, every archive worker
\* and every clone worker is done and has logged finished or error; none is
\* pending or running.
C3_CompletionBarrier ==
  Returned =>
    /\ \A i \in 1..Len(archSt) : archSt[i] = "done"
    /\ \A i \in 1..Len(cloneSt) : cloneSt[i] = "done"
    /\ \A n \in Names :
         /\ Count(log[Desc("archiving", n)], "finished")
              + Count(log[Desc("archiving", n)], "error")
            = Cardinality({i \in 1..Len(archSt) : ArchiveList[i] = n})
         /\ Count(log[Desc("cloning", n)], "finished")
              + Count(log[Desc("cloning", n)], "error")
            = Cardinality({i \in 1..Len(cloneSt) : CloneList[i] = n})

\* Sync returned with an archive worker and two clone workers done.
C3_Witness ==
  /\ Returned
  /\ Len(archSt) >= 1
  /\ Len(cloneSt) >= 2
  /\ \A i \in 1..Len(archSt) : archSt[i] = "done"
  /\ \A i \in 1..Len(cloneSt) : cloneSt[i] = "done"

\* C4: the repositories to archive are exactly the local names absent from
\* the remote list, those to clone exactly the remote names absent from the
\* local list; only those are renamed or cloned, and all of them are once a
\* run that is not dry has returned nil.
C4_Reconciliation ==
  Planned =>
    /\ Range(reposToArchive) = LocalSet \ RemoteSet
    /\ Range(reposToClone) = RemoteSet \ LocalSet
    /\ \A n \in LocalSet \cap RemoteSet :
         ~Contains(reposToArchive, n) /\ ~Contains(reposToClone, n)
    /\ IssuedNames("rename") \subseteq LocalSet \ RemoteSet
    /\ IssuedNames("clone") \subseteq RemoteSet \ LocalSet
    /\ (ret = "nil" /\ ~rs.dryrun) =>
         /\ IssuedNames("rename") = LocalSet \ RemoteSet
         /\ IssuedNames("clone") = RemoteSet \ LocalSet

\* local {x, y}, remote {y, .h}: x is archived, .h is cloned, y is neither.
C4_Witness ==
  /\ ret = "nil"
  /\ ~rs.dryrun
  /\ LocalSet = {NameX, NameY}
  /\ RemoteSet = {NameY, NameH}
  /\ reposToArchive = <<NameX>>
  /\ reposToClone = <<NameH>>
  /\ IssuedNames("rename") = {NameX}
  /\ IssuedNames("clone") = {NameH}

\* C5: when the local list and the remote list hold the same elements, in
\* any order, both differences are empty, Sync logs "nothing to do" and
\* returns nil; no directory is made, no worker started, no command issued.
C5_NothingToDo ==
  (Planned /\ LocalSet = RemoteSet) =>
    /\ reposToArchive = <<>>
    /\ reposToClone = <<>>
    /\ log[Desc("nothing to do!", <<>>)] = <<"print">>
    /\ ret = "nil"
    /\ NoWorkers
    /\ cmds = EmptyBag

\* The same two names, listed in another order by the provider.
C5_Witness ==
  /\ Planned
  /\ currentRepos = <<NameX, NameY>>
  /\ allRepos = <<NameY, NameX>>
  /\ ret = "nil"
  /\ log[Desc("nothing to do!", <<>>)] = <<"print">>

\* The lines s of one description are m begin lines and m finished lines,
\* no error line, and no finished line comes before its begin line.
BeginThenFinished(s, m) ==
  /\ Count(s, "begin") = m
  /\ Count(s, "finished") = m
  /\ Count(s, "error") = 0
  /\ \A j \in 1..Len(s) :
       Count(SubSeq(s, 1, j), "finished") <= Count(SubSeq(s, 1, j), "begin")

\* C6: in dry-run mode no rename and no clone command is ever executed, and
\* every planned archive and clone operation produces a begin line followed
\* by a finished line.
C6_DryRunLogsEveryOperation ==
  rs.dryrun =>
    /\ \A n \in Names : Issued("rename", n) = 0 /\ Issued("clone", n) = 0
    /\ (Planned /\ Returned) =>
         \A n \in Names :
           /\ BeginThenFinished(log[Desc("archiving", n)], Times(reposToArchive, n))
           /\ BeginThenFinished(log[Desc("cloning", n)], Times(reposToClone, n))

\* C7: in dry-run mode no step of the run changes the filesystem, the
\* preparation of the archive directory included.
C7_DryRunNoMutation == [][rs.dryrun => fs' = fs]_vars

\* C8: a name that is in the local list and in the remote list is left
\* alone: no worker is run for it, no command is issued on its path, and its
\* directory is as it was.
C8_ClonedUntouched ==
  Planned =>
    \A n \in LocalSet \cap RemoteSet :
      /\ Issued("rename", n) = 0
      /\ Issued("clone", n) = 0
      /\ log[Desc("archiving", n)] = <<>>
      /\ log[Desc("cloning", n)] = <<>>
      /\ fs.work[n] = "dir"
      /\ fs.arch[n] = "absent"

\* A run that renamed one repository and cloned another has returned, and a
\* third name, in both lists, is still the directory it was.
C8_Witness ==
  /\ ret = "nil"
  /\ ~rs.dryrun
  /\ \E n \in LocalSet \cap RemoteSet, a, c \in Names :
       /\ fs.work[n] = "dir"
       /\ fs.arch[a] = "dir"
       /\ fs.work[c] = "clone"

\* Sync has been entered: its first task has logged its begin line.
SyncStarted == log[Desc("loading repos", <<>>)] # <<>>

\* C9 as stated: Sync only ever runs with exactly one of user and org set.
C9_ExactlyOneAccount == SyncStarted => ((rs.user = "") # (rs.org = ""))

\* C9 as amended: Sync only ever runs with at least one of user and org set;
\* with both set it lists the organization; a run main refused at startup
\* has listed nothing and issued no command.
C9_AtLeastOneAccount ==
  /\ SyncStarted => (rs.user # "" \/ rs.org # "")
  /\ rs.org # "" => pc # "list_user"
  /\ rs = ZeroRepoSync =>
       /\ ~SyncStarted
       /\ pc \in {"main", "exit0", "fatal"}
       /\ allRepos = <<>>
       /\ cmds = EmptyBag

\* Both flags given: main accepts them and the organization is listed.
C9_Witness ==
  /\ rs.user # ""
  /\ rs.org # ""
  /\ pc = "list_org"
  /\ SyncStarted

\* MkdirAll was called and the archive directory is not there: it failed.
MkdirFailed == Issued("mkdir", <<>>) > 0 /\ ~fs.archExists

\* C10: when creating the archive directory fails, Sync returns that error
\* at once: no worker is started, no rename and no clone is attempted.
C10_MkdirFailureAborts ==
  MkdirFailed =>
    /\ ret = "err_mkdir"
    /\ pc \in {"returned", "fatal"}
    /\ NoWorkers
    /\ archivers = 0 /\ cloners = 0
    /\ \A n \in Names :
         /\ Issued("rename", n) = 0 /\ Issued("clone", n) = 0
         /\ log[Desc("archiving", n)] = <<>> /\ log[Desc("cloning", n)] = <<>>

\* There was a repository to archive and one to clone when MkdirAll failed.
C10_Witness ==
  /\ MkdirFailed
  /\ ret = "err_mkdir"
  /\ reposToArchive # <<>>
  /\ reposToClone # <<>>

\* Every entry the provider returned, page after page.
RECURSIVE EntriesFrom(_)
EntriesFrom(k) ==
  IF k > Len(served) THEN <<>> ELSE served[k].repos \o EntriesFrom(k + 1)

AllEntries == EntriesFrom(1)
NamesOf(es) == [i \in 1..Len(es) |-> es[i].name]
Named(e) == e.name # NoName
\* The user's repositories are listed and -userrepoforks is off.
ForksDropped == rs.org = "" /\ ~rs.userRepoForks
Kept(e) == Named(e) /\ ~(ForksDropped /\ e.fork = "true")

\* The first request asks for no page number, each later request for the
\* page the response before it named, and no request follows an error or a
\* response that named no next page.
RequestsInOrder ==
  /\ Len(served) >= 1 => served[1].page = 0
  /\ \A k \in 1..(Len(served) - 1) :
       /\ ~served[k].err
       /\ served[k].next # 0
       /\ served[k + 1].page = served[k].next

\* When the listing ended without an error, its last response named no
\* next page.
StopsAtLastPage ==
  (pc = "local" /\ ~remoteErr) => (served # <<>> /\ served[Len(served)].next = 0)

\* C11 as stated: with every request succeeding, the pages are requested in
\* the order the next-page indicators give, the listing stops exactly at the
\* first page that names no next page, and every named repository of every
\* page is accumulated.
C11_AccumulatesEveryNamed ==
  ~remoteErr =>
    /\ RequestsInOrder
    /\ StopsAtLastPage
    /\ allRepos = NamesOf(SelectSeq(AllEntries, Named))

\* C11 as amended: the same, the accumulated names being those of every
\* named repository of every page except, when the user's repositories are
\* listed with fork inclusion off, the ones flagged as forks.
C11_Pagination ==
  ~remoteErr =>
    /\ RequestsInOrder
    /\ StopsAtLastPage
    /\ allRepos = NamesOf(SelectSeq(AllEntries, Kept))

\* Two pages, a named repository on each, both accumulated, listing over.
C11_Witness ==
  /\ pc = "local"
  /\ ~remoteErr
  /\ Len(served) = 2
  /\ served[1].next = 2 /\ served[2].page = 2 /\ served[2].next = 0
  /\ Len(served[1].repos) = 1 /\ Len(served[2].repos) = 1
  /\ allRepos = <<served[1].repos[1].name, served[2].repos[1].name>>

\* Number of returned entries named n; of those, the ones not flagged a fork.
EntriesNamed(n) == {i \in 1..Len(AllEntries) : AllEntries[i].name = n}
NonForksNamed(n) == {i \in EntriesNamed(n) : AllEntries[i].fork # "true"}

\* C12: when the user's repositories are listed with fork inclusion off, no
\* entry flagged as a fork contributes to the remote list (a name all of
\* whose entries are forks is not in it); with fork inclusion on every named
\* entry is in it; an entry without a name never is.
C12_ForkExclusion ==
  /\ ForksDropped =>
       \A n \in Names :
         /\ Times(allRepos, n) = Cardinality(NonForksNamed(n))
         /\ NonForksNamed(n) = {} => n \notin RemoteSet
  /\ rs.userRepoForks =>
       \A n \in Names : Times(allRepos, n) = Cardinality(EntriesNamed(n))
  /\ NoName \notin RemoteSet
  /\ Len(allRepos) <= Len(AllEntries)

\* Fork inclusion off: a fork and a repository that is none were returned,
\* the listing is over, only the second is in the remote list.
C12_Witness ==
  /\ pc = "local"
  /\ ForksDropped
  /\ \E i, j \in 1..Len(AllEntries) :
       /\ AllEntries[i].fork = "true" /\ Named(AllEntries[i])
       /\ AllEntries[j].fork # "true" /\ Named(AllEntries[j])
       /\ AllEntries[i].name \notin RemoteSet
       /\ AllEntries[j].name \in RemoteSet

\* No worker has touched the working directory yet.
Untouched == \A n \in Names : Issued("rename", n) = 0 /\ Issued("clone", n) = 0

\* C13: the local list is exactly the entries ReadDir returned that are
\* directories and whose name does not begin with '.', each once; a hidden
\* directory or an entry that is no directory is never archived.
C13_LocalSet ==
  /\ (Planned /\ ~readErr /\ Untouched) =>
       /\ LocalSet = {n \in Names : fs.work[n] = "dir" /\ n[1] # "."}
       /\ Len(currentRepos) = Cardinality(LocalSet)
  /\ \A n \in Names :
       (n[1] = "." \/ fs.work[n] = "file") =>
         /\ ~Contains(reposToArchive, n)
         /\ Issued("rename", n) = 0
         /\ log[Desc("archiving", n)] = <<>>
         /\ fs.arch[n] = "absent"

\* The working directory held a hidden directory, a file and "y.g"; the
\* provider returned nothing; only "y.g" was archived.
C13_Witness ==
  /\ ret = "nil"
  /\ ~readErr
  /\ allRepos = <<>>
  /\ fs.work[NameH] = "dir"
  /\ fs.work[NameX] = "file"
  /\ currentRepos = <<NameY>>
  /\ fs.arch[NameY] = "dir"

\* C14: a read error on the working directory is not surfaced: the
\* local-list task logs finished, the local list is empty, nothing is to be
\* archived, the whole remote list is to be cloned, and the error is never
\* what Sync returns or main reports.
C14_ReadErrorTolerated ==
  (Planned /\ readErr) =>
    /\ log[Desc("loading local", <<>>)] = <<"begin", "finished">>
    /\ currentRepos = <<>>
    /\ reposToArchive = <<>>
    /\ reposToClone = allRepos
    /\ ret \in {"none", "nil", "err_mkdir"}
    /\ \A i \in 1..Len(log[Desc("fatal", <<>>)]) :
         log[Desc("fatal", <<>>)][i] = "err_mkdir"
    /\ archSt = <<>>
    /\ (allRepos = <<>>) = (log[Desc("nothing to do!", <<>>)] # <<>>)

\* The working directory holds a directory but could not be read; both
\* remote repositories were put up for cloning and Sync returned nil.
C14_Witness ==
  /\ Planned
  /\ readErr
  /\ fs.work[NameX] = "dir"
  /\ Len(allRepos) = 2
  /\ reposToClone = allRepos
  /\ Len(cloneSt) = 2
  /\ ret = "nil"

\* C15: Difference(a, b) is the subsequence of a, order and duplicates kept,
\* of the elements with no equal element in b; Difference(a, a) is empty,
\* Difference(a, []) is a, Difference([], b) is empty.
C15_Difference ==
  pc = "diffed" =>
    /\ result = SelectSeq(argA, LAMBDA e : \A j \in 1..Len(argB) : argB[j] # e)
    /\ argB = argA => result = <<>>
    /\ argB = <<>> => result = argA
    /\ argA = <<>> => result = <<>>

\* Difference([x, y.g, x], [y.g]) returned [x, x].
C15_Witness ==
  /\ pc = "diffed"
  /\ argA = <<NameX, NameY, NameX>>
  /\ argB = <<NameY>>
  /\ result = <<NameX, NameX>>

\* Number of workers of the list with states st that act on n and are in state k.
Workers(list, st, n, k) ==
  Cardinality({i \in 1..Len(st) : list[i] = n /\ st[i] = k})

\* In the lines s of one description no prefix holds more terminal lines
\* than begin lines, and there is no other kind of line.
BeginBeforeTerminal(s) ==
  \A j \in 1..Len(s) :
    /\ s[j] \in {"begin", "finished", "error"}
    /\ Count(SubSeq(s, 1, j), "finished") + Count(SubSeq(s, 1, j), "error")
         <= Count(SubSeq(s, 1, j), "begin")

\* The lines s of one description whose list is list and worker states st:
\* one begin line per Run entered, one terminal line per Run left.
OneTerminalPerRun(s, list, st, n) ==
  /\ BeginBeforeTerminal(s)
  /\ Count(s, "begin") = Workers(list, st, n, "running") + Workers(list, st, n, "done")
  /\ Count(s, "finished") + Count(s, "error") = Workers(list, st, n, "done")

\* C16: every Task.Run logs begin before its action and exactly one terminal
\* line after it, finished when the action returned nil and error when it
\* returned an error, and the error does not reach the caller of Run.
C16_TaskRun ==
  /\ LET s == log[Desc("loading repos", <<>>)]
     IN  /\ s \in {<<>>, <<"begin">>, <<"begin", "finished">>, <<"begin", "error">>}
         /\ (s = <<"begin">>) <=> (pc \in {"list_org", "list_user"})
         /\ Contains(s, "error") <=> remoteErr
  /\ log[Desc("loading local", <<>>)] \in {<<>>, <<"begin", "finished">>}
  /\ \A n \in Names :
       /\ OneTerminalPerRun(log[Desc("archiving", n)], reposToArchive, archSt, n)
       /\ OneTerminalPerRun(log[Desc("cloning", n)], reposToClone, cloneSt, n)
       /\ Count(log[Desc("archiving", n)], "finished") =
            IF rs.dryrun THEN Workers(reposToArchive, archSt, n, "done")
            ELSE IF fs.arch[n] # "absent" THEN 1 ELSE 0
       /\ Count(log[Desc("cloning", n)], "finished") =
            IF rs.dryrun THEN Workers(reposToClone, cloneSt, n, "done")
            ELSE IF fs.work[n] = "clone" THEN 1 ELSE 0
  /\ ret \in {"none", "nil", "err_mkdir"}

\* The remote task logged begin and error, a clone task logged begin and
\* error, an archive task logged begin and finished, and Sync returned nil.
C16_Witness ==
  /\ log[Desc("loading repos", <<>>)] = <<"begin", "error">>
  /\ ret = "nil"
  /\ \E a, c \in Names :
       /\ log[Desc("cloning", c)] = <<"begin", "error">>
       /\ log[Desc("archiving", a)] = <<"begin", "finished">>

\* C17: Sync starts one worker per entry of toArchive and one per entry of
\* toClone, never more, and each worker issues its rename or its clone once,
\* whether the command succeeds or fails.
C17_ExactlyOnce ==
  /\ Len(archSt) <= Len(reposToArchive)
  /\ Len(cloneSt) <= Len(reposToClone)
  /\ (pc \in {"wait_arch", "wait_clone"} \/ ret = "nil") =>
       /\ Len(archSt) = Len(reposToArchive)
       /\ Len(cloneSt) = Len(reposToClone)
  /\ \A n \in Names :
       /\ Count(log[Desc("archiving", n)], "begin") <= Times(reposToArchive, n)
       /\ Count(log[Desc("cloning", n)], "begin") <= Times(reposToClone, n)
       /\ Issued("rename", n) =
            IF rs.dryrun THEN 0 ELSE Workers(reposToArchive, archSt, n, "done")
       /\ Issued("clone", n) =
            IF rs.dryrun THEN 0 ELSE Workers(reposToClone, cloneSt, n, "done")

\* Sync returned; two clones were planned, one of them failed and was issued
\* once, and one rename was issued.
C17_Witness ==
  /\ ret = "nil"
  /\ ~rs.dryrun
  /\ Len(reposToClone) = 2
  /\ Len(reposToArchive) = 1
  /\ \E c \in Names :
       /\ Contains(log[Desc("cloning", c)], "error")
       /\ Issued("clone", c) = 1
  /\ Issued("rename", reposToArchive[1]) = 1

\* C18: no two workers that are running at the same time act on the same
\* path of the working directory, whatever list the provider returned.
C18_NoContention ==
  /\ \A i, j \in 1..Len(archSt) :
       (i # j /\ archSt[i] = "running" /\ archSt[j] = "running")
         => reposToArchive[i] # reposToArchive[j]
  /\ \A i, j \in 1..Len(cloneSt) :
       (i # j /\ cloneSt[i] = "running" /\ cloneSt[j] = "running")
         => reposToClone[i] # reposToClone[j]
  /\ \A i \in 1..Len(archSt), j \in 1..Len(cloneSt) :
       (archSt[i] = "running" /\ cloneSt[j] = "running")
         => reposToArchive[i] # reposToClone[j]

\* Some archive or clone command never returns.
AnyHung ==
  \/ \E i \in 1..Len(archSt) : archSt[i] = "hung"
  \/ \E i \in 1..Len(cloneSt) : cloneSt[i] = "hung"

\* C19: under fair scheduling a started Sync returns unless some archive or
\* clone command never returns; once one hangs it hangs for ever and Sync
\* never returns.
C19_Termination ==
  /\ SyncStarted ~> (Returned \/ AnyHung)
  /\ [](AnyHung => [](AnyHung /\ ~Returned))

\* Sync is blocked at the clone barrier: one clone hangs, its sibling is done.
C19_Witness ==
  /\ pc = "wait_clone"
  /\ \E i, j \in 1..Len(cloneSt) : cloneSt[i] = "hung" /\ cloneSt[j] = "done"
  /\ ~Returned

\* C20: after a run that was not dry and in which the listing and every
\* archive and clone succeeded, a second run against the same remote list
\* plans nothing and prints nothing to do, whatever the remote list holds.
C20_Convergence ==
  (run = 2 /\ Planned /\ ~readErr) =>
    /\ reposToArchive = <<>>
    /\ reposToClone = <<>>
    /\ log[Desc("nothing to do!", <<>>)] = <<"print">>

====
